---- MODULE Spec2Model ----
(***************************************************************************)
(* Request handling of the synergyAlpha backend relay.                     *)
(*                                                                         *)
(* The repository holds three builds of the same Express application:      *)
(*   src/server.js        ("server")                                       *)
(*   src/unnamed/part_000 ("part_000", the oldest build)                   *)
(*   src/unnamed/part_001 ("part_001", server.js without the two           *)
(*                         statement routes)                               *)
(* One request is followed from its arrival to its response.  Requests     *)
(* share no state, so one request at a time shows every behaviour.  A      *)
(* handler runs atomically between two awaits; an upstream call is in      *)
(* flight between the step that issues it and the step that delivers its   *)
(* outcome.                                                                *)
(***************************************************************************)
EXTENDS Integers, Sequences, FiniteSets, TLC

VARIABLES
    file,       \* the build that serves the request
    route,      \* the route the request addresses
    param,      \* the shape of the route's required parameter in the request
    pc,         \* position of the request
    calls,      \* upstream paths this request has called, in order
    inflight,   \* upstream calls issued and not yet completed
    replies,    \* outcomes of the upstream calls that completed, in order
    calendarData, \* decoded body of the calendar call (earnings)
    responses,  \* responses sent for this request, in order
    today,      \* the date on which the request is handled
    window      \* the from/to dates sent to the calendar path (earnings)

vars == <<file, route, param, pc, calls, inflight, replies, calendarData, responses,
          today, window>>

----------------------------------------------------------------------------
(* Bounds of the model *)

\* longest list an upstream body carries
MaxLen == 2
\* distinct elements a list may carry
NumItems == 2
\* the first year, and the number of years, of the dates a request may be
\* handled on
FirstYear == 2027
NumYears == 2

----------------------------------------------------------------------------
(* JSON values, as JavaScript sees them after JSON.parse *)

Items == 1..NumItems

Lists == UNION {[1..n -> Items] : n \in 0..MaxLen}

JV(t, v) == [t |-> t, v |-> v]

Undef == JV("undefined", <<>>)

\* values a field of an upstream object may hold
FieldVals ==
    {Undef, JV("null", <<>>), JV("num", <<0>>), JV("num", <<7>>),
     JV("str", <<>>), JV("str", <<1>>), JV("bool", <<0>>), JV("obj", <<>>)}
    \cup {JV("list", l) : l \in Lists}

\* values of the fields the earnings handler inspects
SmallVals == {Undef, JV("str", <<1>>), JV("list", <<>>), JV("list", <<1>>)}

FieldNames == {"results", "earningsCalendar", "earningsEstimates"}

Obj(r, c, e) ==
    [t |-> "obj", v |-> <<>>,
     f |-> [n \in FieldNames |->
              IF n = "results" THEN r
              ELSE IF n = "earningsCalendar" THEN c ELSE e]]

NonObj(t, v) == [t |-> t, v |-> v, f |-> [n \in FieldNames |-> Undef]]

\* decoded bodies an upstream may send
Payloads ==
    {Obj(r, Undef, Undef) : r \in FieldVals}
    \cup {Obj(Undef, c, e) : c \in SmallVals, e \in SmallVals}
    \cup {Obj(JV("list", <<1>>), JV("list", <<1>>), JV("list", <<>>))}
    \cup {NonObj("null", <<>>), NonObj("num", <<7>>), NonObj("str", <<1>>),
          NonObj("list", <<1>>)}

NoPayload == NonObj("undefined", <<>>)

\* body texts: a JSON text (named by the value it denotes), an HTML
\* document, or any other text that is not JSON
Bodies ==
    {[kind |-> "json", val |-> p] : p \in Payloads}
    \cup {[kind |-> "html", val |-> NoPayload],
          [kind |-> "garbage", val |-> NoPayload]}

UpstreamStatuses == {200, 201, 404}

\* what a fetch can end in: a rejected promise, or a response
Outcomes ==
    {[net |-> "fail", status |-> 0, body |-> [kind |-> "garbage", val |-> NoPayload]]}
    \cup {[net |-> "ok", status |-> s, body |-> b] : s \in UpstreamStatuses, b \in Bodies}

----------------------------------------------------------------------------
(* JavaScript semantics the handlers rely on *)

\* JSON.parse: a value, or a SyntaxError
JSONparse(text) ==
    IF text.kind = "json" THEN [ok |-> TRUE, val |-> text.val]
    ELSE [ok |-> FALSE, val |-> NoPayload]

\* !x is the negation of this
Truthy(x) ==
    /\ x.t \notin {"undefined", "null"}
    /\ ~(x.t = "num" /\ x.v = <<0>>)
    /\ ~(x.t = "str" /\ x.v = <<>>)
    /\ ~(x.t = "bool" /\ x.v = <<0>>)

ArrayIsArray(x) == x.t = "list"

\* reading a property of null throws a TypeError
ThrowsOnRead(p) == p.t \in {"null", "undefined"}

Prop(p, n) == IF p.t = "obj" THEN p.f[n] ELSE Undef

\* response.ok of node-fetch
ResponseOk(status) == status >= 200 /\ status < 300

----------------------------------------------------------------------------
(* Responses *)

\* a message text and the upstream status code the text embeds (0: none)
Msg(text, status) == [text |-> text, status |-> status]

NoMsg == Msg("", 0)

Response(by, status, keys, error, details, body) ==
    [by |-> by, status |-> status, keys |-> keys, error |-> error,
     details |-> details, body |-> body]

\* res.status(400).json({ error })
BadRequest(text) ==
    Response("handler", 400, {"error"}, Msg(text, 0), NoMsg, <<>>)

\* the catch block of a handler: res.status(500).json({error, details, timestamp})
Caught(label, e) ==
    Response("handler", 500, {"error", "details", "timestamp"}, Msg(label, 0), e, <<>>)

\* the top-level keys JSON.stringify writes for a decoded payload
KeysOf(data) ==
    IF data.t = "obj" THEN {n \in FieldNames : data.f[n] # Undef} ELSE {}

\* res.json(data): status 200, the payload as it was decoded
PassThrough(data) ==
    Response("handler", 200, KeysOf(data), NoMsg, NoMsg, <<data>>)

\* Express answers a request no route matches
RouterNotFound ==
    Response("router", 404, {}, NoMsg, NoMsg, <<>>)

\* a rejected fetch promise
FetchError == Msg("request failed", 0)

\* property read on null
TypeErrorNull == Msg("Cannot read properties of null", 0)

----------------------------------------------------------------------------
(* Routing *)

Files == {"server", "part_000", "part_001"}

\* the routes each build registers
RoutesOf(f) ==
    IF f = "server"
    THEN {"health", "search", "balance", "income", "cashflow", "earnings"}
    ELSE {"health", "search", "balance", "earnings"}

\* routes that take their required parameter from the path (/:symbol)
PathRoutes == {"balance", "income", "cashflow"}

\* shapes of the required parameter: not given, given as the empty string,
\* given as white space only, given as text
Params == {"absent", "empty", "blank", "text"}

\* !symbol, !query: undefined and "" are falsy, " " is not
Falsy(p) == p \in {"absent", "empty"}

\* a path with an empty :symbol segment matches no route pattern; a query
\* parameter plays no part in matching
Matches(r, p) == r \in PathRoutes => ~Falsy(p)

\* the upstream path each route calls first
UpstreamPath(r) ==
    CASE r = "search"   -> "/search"
      [] r = "balance"  -> "/companies/:symbol/balance-sheet"
      [] r = "income"   -> "/companies/:symbol/income-statement"
      [] r = "cashflow" -> "/companies/:symbol/cash-flow-statement"
      [] r = "earnings" -> "/calendar/earnings"
      [] OTHER          -> ""

EstimatesPath == "/stock/earnings-estimates"

----------------------------------------------------------------------------
(* GET /api/search, after the await of fetch *)

SearchLabel == "Failed to fetch search data"

\* the shape test of the decoded search payload
SearchShapeLoose(data) == Truthy(Prop(data, "results"))

SearchShapeOk(data) ==
    Truthy(Prop(data, "results")) /\ ArrayIsArray(Prop(data, "results"))

\* the success response of the search handler, cut to one result
SearchSuccessCut(data) ==
    PassThrough([data EXCEPT !.f["results"].v =
                                 IF Len(@) > 1 THEN SubSeq(@, 1, 1) ELSE @])

\* the success response of the search handler
SearchSuccess(data) == PassThrough(data)

\* server.js and part_001: text(), JSON.parse, status test, shape test
SearchReply(o) ==
    IF o.net = "fail" THEN Caught(SearchLabel, FetchError)
    ELSE LET parsed == JSONparse(o.body) IN
         IF ~parsed.ok
         THEN Caught(SearchLabel, Msg("Failed to parse JSON", 0))
         ELSE IF ~ResponseOk(o.status)
         THEN Caught(SearchLabel, Msg("Synergy API error", o.status))
         ELSE IF ThrowsOnRead(parsed.val)
         THEN Caught(SearchLabel, TypeErrorNull)
         ELSE IF ~SearchShapeOk(parsed.val)
         THEN Caught(SearchLabel,
                     Msg("Invalid search data structure returned from API", 0))
         ELSE SearchSuccess(parsed.val)

\* part_000: response.json(); when it throws, the catch reads text() from
\* the body json() has consumed, which throws in turn
SearchReply000(o) ==
    IF o.net = "fail" THEN Caught(SearchLabel, FetchError)
    ELSE LET parsed == JSONparse(o.body) IN
         IF ~parsed.ok
         THEN Caught(SearchLabel, Msg("body used already", 0))
         ELSE IF ~ResponseOk(o.status)
         THEN Caught(SearchLabel, Msg("Synergy API error", o.status))
         ELSE IF ThrowsOnRead(parsed.val)
         THEN Caught(SearchLabel, TypeErrorNull)
         ELSE IF ~SearchShapeOk(parsed.val)
         THEN Caught(SearchLabel,
                     Msg("Invalid search data structure returned from API", 0))
         ELSE SearchSuccess(parsed.val)

SearchReplyOf(f, o) == IF f = "part_000" THEN SearchReply000(o) ELSE SearchReply(o)

----------------------------------------------------------------------------
(* GET /api/balance-sheet/:symbol, after the await of fetch *)

BalanceLabel == "Failed to fetch balance sheet data"

\* server.js and part_001: text(), JSON.parse, status test, pass through
BalanceReply(o) ==
    IF o.net = "fail" THEN Caught(BalanceLabel, FetchError)
    ELSE LET parsed == JSONparse(o.body) IN
         IF ~parsed.ok
         THEN Caught(BalanceLabel, Msg("Failed to parse JSON response", 0))
         ELSE IF ~ResponseOk(o.status)
         THEN Caught(BalanceLabel, Msg("API returned status", o.status))
         ELSE PassThrough(parsed.val)

\* part_000: status test on the raw body first, then response.json()
BalanceReply000(o) ==
    IF o.net = "fail" THEN Caught(BalanceLabel, FetchError)
    ELSE IF ~ResponseOk(o.status)
    THEN Caught(BalanceLabel, Msg("API returned status", o.status))
    ELSE LET parsed == JSONparse(o.body) IN
         IF ~parsed.ok
         THEN Caught(BalanceLabel, Msg("invalid json response body", 0))
         ELSE PassThrough(parsed.val)

BalanceReplyOf(f, o) == IF f = "part_000" THEN BalanceReply000(o) ELSE BalanceReply(o)

----------------------------------------------------------------------------
(* GET /api/income-statement/:symbol and /api/cash-flow-statement/:symbol  *)
(* (server.js only), after the await of fetch                              *)

\* the parse failure answered inside the handler
ParseFailure ==
    Response("handler", 500,
             {"error", "details", "rawResponsePreview", "timestamp"},
             Msg("Failed to parse JSON response", 0),
             Msg("Unexpected token", 0), <<>>)

\* res.status(response.status).json({error, details, timestamp})
UpstreamStatusRelayed(status) ==
    Response("handler", status, {"error", "details", "timestamp"},
             Msg("API returned status", status),
             Msg("JSON.stringify(data)", 0), <<>>)

IncomeReply(o) ==
    IF o.net = "fail"
    THEN Caught("Failed to fetch income statement data", FetchError)
    ELSE LET parsed == JSONparse(o.body) IN
         IF ~parsed.ok THEN ParseFailure
         ELSE IF ~ResponseOk(o.status) THEN UpstreamStatusRelayed(o.status)
         ELSE PassThrough(parsed.val)

CashFlowReply(o) ==
    IF o.net = "fail"
    THEN Caught("Failed to fetch cash flow statement data", FetchError)
    ELSE LET parsed == JSONparse(o.body) IN
         IF ~parsed.ok THEN ParseFailure
         ELSE IF ~ResponseOk(o.status) THEN UpstreamStatusRelayed(o.status)
         ELSE PassThrough(parsed.val)

----------------------------------------------------------------------------
(* GET /api/earnings *)

EarningsLabel == "Failed to fetch earnings data"

\* handleApiResponse with the parse error swallowed: an empty object is
\* returned for a body that is not JSON
handleApiResponseLenient(o, source) ==
    LET parsed == JSONparse(o.body) IN
    IF parsed.ok THEN [ok |-> TRUE, val |-> parsed.val, err |-> NoMsg]
    ELSE [ok |-> TRUE, val |-> Obj(Undef, Undef, Undef), err |-> NoMsg]

\* handleApiResponse: text(), JSON.parse; the status is not looked at
handleApiResponse(o, source) ==
    LET parsed == JSONparse(o.body) IN
    IF parsed.ok THEN [ok |-> TRUE, val |-> parsed.val, err |-> NoMsg]
    ELSE [ok |-> FALSE, val |-> NoPayload, err |-> Msg(source, 0)]

\* the two shape tests, with only the calendar looked at
EarningsShapeCalendarOnly(cal, est) ==
    IF ThrowsOnRead(cal) THEN TypeErrorNull
    ELSE IF ~ArrayIsArray(Prop(cal, "earningsCalendar"))
    THEN Msg("Invalid calendar data structure", 0)
    ELSE NoMsg

\* the two shape tests made once both payloads are decoded: the error
\* thrown, or NoMsg
EarningsShape(cal, est) ==
    IF ThrowsOnRead(cal) THEN TypeErrorNull
    ELSE IF ~ArrayIsArray(Prop(cal, "earningsCalendar"))
    THEN Msg("Invalid calendar data structure", 0)
    ELSE IF ThrowsOnRead(est) THEN TypeErrorNull
    ELSE IF ~ArrayIsArray(Prop(est, "earningsEstimates"))
    THEN Msg("Invalid estimates data structure", 0)
    ELSE NoMsg

\* res.json({calendar: calendarData, estimates: estimatesData})
EarningsSuccess(cal, est) ==
    Response("handler", 200, {"calendar", "estimates"}, NoMsg, NoMsg, <<cal, est>>)

\* the handler from the completion of the estimates call on
EarningsReply(cal, o) ==
    IF o.net = "fail" THEN Caught(EarningsLabel, FetchError)
    ELSE LET est == handleApiResponse(o, "Failed to parse Estimates response") IN
         IF ~est.ok THEN Caught(EarningsLabel, est.err)
         ELSE IF EarningsShape(cal, est.val) # NoMsg
         THEN Caught(EarningsLabel, EarningsShape(cal, est.val))
         ELSE EarningsSuccess(cal, est.val)

\* part_000 never declares FINNHUB_API_KEY: building the options of the
\* first fetch throws a ReferenceError, which the catch answers
EarningsReply000 ==
    Caught(EarningsLabel, Msg("FINNHUB_API_KEY is not defined", 0))

----------------------------------------------------------------------------
(* The date window of GET /api/earnings *)
(* The server's clock is taken to run in UTC, and the two new Date() of    *)
(* the handler to fall on the same day.                                    *)

IsLeap(y) == (y % 4 = 0 /\ y % 100 # 0) \/ y % 400 = 0

DaysIn(y, m) ==
    IF m = 2 THEN (IF IsLeap(y) THEN 29 ELSE 28)
    ELSE IF m \in {4, 6, 9, 11} THEN 30 ELSE 31

\* the days a request may be handled on
Dates ==
    {dt \in [y : FirstYear..(FirstYear + NumYears - 1), m : 1..12, d : 1..31] :
        dt.d <= DaysIn(dt.y, dt.m)}

\* Date.prototype.setMonth(i) with i a month index from 0: the year and the
\* month are set from i, the day of the month is kept, and a day the month
\* does not have runs over into the following month
setMonth(dt, i) ==
    LET y2 == dt.y + (i \div 12)
        m2 == (i % 12) + 1
    IN  IF dt.d <= DaysIn(y2, m2)
        THEN [y |-> y2, m |-> m2, d |-> dt.d]
        ELSE [y |-> IF m2 = 12 THEN y2 + 1 ELSE y2,
              m |-> IF m2 = 12 THEN 1 ELSE m2 + 1,
              d |-> dt.d - DaysIn(y2, m2)]

\* toISOString().split('T')[0]: the text YYYY-MM-DD, as its three numbers
IsoDate(dt) == <<dt.y, dt.m, dt.d>>

\* fromDate and toDate of the calendar URL
EarningsWindow(dt) ==
    [from |-> IsoDate(dt), to |-> IsoDate(setMonth(dt, (dt.m - 1) + 3))]

NoWindow == [from |-> <<0, 0, 0>>, to |-> <<0, 0, 0>>]

----------------------------------------------------------------------------
(* The request *)

Init ==
    /\ file = "server"
    /\ route = "health"
    /\ param = "absent"
    /\ pc = "idle"
    /\ calls = <<>>
    /\ inflight = 0
    /\ replies = <<>>
    /\ calendarData = NoPayload
    /\ responses = <<>>
    /\ today = [y |-> FirstYear, m |-> 1, d |-> 1]
    /\ window = NoWindow

\* a request arrives at one of the builds
Receive ==
    /\ pc = "idle"
    /\ \E f \in Files : \E r \in RoutesOf(f) : \E p \in Params :
          /\ r = "health" => p = "absent"
          /\ file' = f
          /\ route' = r
          /\ param' = p
    /\ pc' = "received"
    /\ UNCHANGED <<calls, inflight, replies, calendarData, responses, today, window>>

\* a response is sent and the handler does not return: it runs on into the
\* send of its catch block
RespondAndFallThrough(resp) ==
    /\ responses' = responses \o <<resp, Caught("", NoMsg)>>
    /\ pc' = "done"

\* res.json / res.status().json: the response is sent, the handler ends
Respond(resp) ==
    /\ responses' = Append(responses, resp)
    /\ pc' = "done"

\* fetch(url): the call is issued, the handler awaits it
Fetch(path) ==
    /\ calls' = Append(calls, path)
    /\ inflight' = inflight + 1
    /\ pc' = "await"

\* no route pattern matches: Express answers 404, no handler runs
NotFound ==
    /\ pc = "received"
    /\ ~Matches(route, param)
    /\ Respond(RouterNotFound)
    /\ UNCHANGED <<file, route, param, calls, inflight, replies, calendarData, today, window>>

Health ==
    /\ pc = "received"
    /\ route = "health"
    /\ Respond(Response("handler", 200, {"status", "timestamp"}, NoMsg, NoMsg, <<>>))
    /\ UNCHANGED <<file, route, param, calls, inflight, replies, calendarData, today, window>>

\* a single-call handler from its entry to its await of fetch: the test
\* of the required parameter, then the call
Begin(text) ==
    /\ IF Falsy(param)
       THEN /\ Respond(BadRequest(text))
            /\ UNCHANGED <<calls, inflight>>
       ELSE /\ Fetch(UpstreamPath(route))
            /\ UNCHANGED responses
    /\ UNCHANGED <<file, route, param, replies, calendarData, today, window>>

SearchStart ==
    /\ pc = "received"
    /\ route = "search"
    /\ Begin("Query parameter is required")

BalanceStart ==
    /\ pc = "received"
    /\ route = "balance"
    /\ Matches(route, param)
    /\ Begin("Symbol parameter is required")

IncomeStart ==
    /\ pc = "received"
    /\ route = "income"
    /\ Matches(route, param)
    /\ Begin("Symbol parameter is required")

CashFlowStart ==
    /\ pc = "received"
    /\ route = "cashflow"
    /\ Matches(route, param)
    /\ Begin("Symbol parameter is required")

\* the earnings handler up to its first await
EarningsStart ==
    /\ pc = "received"
    /\ route = "earnings"
    /\ IF Falsy(param)
       THEN /\ Respond(BadRequest("Symbol is required"))
            /\ UNCHANGED <<calls, inflight, window>>
       ELSE IF file = "part_000"
       THEN /\ Respond(EarningsReply000)
            /\ UNCHANGED <<calls, inflight, window>>
       ELSE /\ window' = EarningsWindow(today)
            /\ Fetch(UpstreamPath("earnings"))
            /\ UNCHANGED responses
    /\ UNCHANGED <<file, route, param, replies, calendarData, today>>

\* an upstream call in flight ends: the promise rejects, or a response
\* with some status and body arrives
UpstreamCompletes ==
    /\ pc = "await"
    /\ inflight > 0
    /\ \E o \in Outcomes : replies' = Append(replies, o)
    /\ inflight' = inflight - 1
    /\ pc' = "resume"
    /\ UNCHANGED <<file, route, param, calls, calendarData, responses, today, window>>

Last(q) == q[Len(q)]

\* the end of a single-call handler: its response is sent
End(resp) ==
    /\ Respond(resp)
    /\ UNCHANGED <<file, route, param, calls, inflight, replies, calendarData, today, window>>

\* the single-call handlers from the completion of their fetch on
SearchResume ==
    /\ pc = "resume"
    /\ route = "search"
    /\ End(SearchReplyOf(file, Last(replies)))

BalanceResume ==
    /\ pc = "resume"
    /\ route = "balance"
    /\ End(BalanceReplyOf(file, Last(replies)))

IncomeResume ==
    /\ pc = "resume"
    /\ route = "income"
    /\ End(IncomeReply(Last(replies)))

CashFlowResume ==
    /\ pc = "resume"
    /\ route = "cashflow"
    /\ End(CashFlowReply(Last(replies)))

\* the earnings handler from the completion of the calendar call to its
\* second await
EarningsCalendarDone ==
    /\ pc = "resume"
    /\ route = "earnings"
    /\ Len(calls) = 1
    /\ LET o == Last(replies)
           cal == handleApiResponse(o, "Failed to parse Calendar response")
       IN  IF o.net = "fail"
           THEN /\ Respond(Caught(EarningsLabel, FetchError))
                /\ UNCHANGED <<calls, inflight, calendarData>>
           ELSE IF ~cal.ok
           THEN /\ Respond(Caught(EarningsLabel, cal.err))
                /\ UNCHANGED <<calls, inflight, calendarData>>
           ELSE /\ calendarData' = cal.val
                /\ Fetch(EstimatesPath)
                /\ UNCHANGED responses
    /\ UNCHANGED <<file, route, param, replies, today, window>>

\* the earnings handler from the completion of the estimates call on
EarningsEstimatesDone ==
    /\ pc = "resume"
    /\ route = "earnings"
    /\ Len(calls) = 2
    /\ Respond(EarningsReply(calendarData, Last(replies)))
    /\ UNCHANGED <<file, route, param, calls, inflight, replies, calendarData, today, window>>

\* the request is over; the next one starts from nothing
Finish ==
    /\ pc = "done"
    /\ pc' = "idle"
    /\ file' = "server"
    /\ route' = "health"
    /\ param' = "absent"
    /\ calls' = <<>>
    /\ inflight' = 0
    /\ replies' = <<>>
    /\ calendarData' = NoPayload
    /\ responses' = <<>>
    /\ window' = NoWindow
    /\ UNCHANGED today

Next ==
    \/ Receive
    \/ NotFound
    \/ Health
    \/ SearchStart
    \/ BalanceStart
    \/ IncomeStart
    \/ CashFlowStart
    \/ EarningsStart
    \/ UpstreamCompletes
    \/ SearchResume
    \/ BalanceResume
    \/ IncomeResume
    \/ CashFlowResume
    \/ EarningsCalendarDone
    \/ EarningsEstimatesDone
    \/ Finish

Spec == Init /\ [][Next]_vars

\* The event loop runs every handler step that is ready, and every upstream
\* call that was issued ends in a response or a failure.  Nothing obliges a
\* request to arrive.
Handling ==
    \/ NotFound
    \/ Health
    \/ SearchStart
    \/ BalanceStart
    \/ IncomeStart
    \/ CashFlowStart
    \/ EarningsStart
    \/ SearchResume
    \/ BalanceResume
    \/ IncomeResume
    \/ CashFlowResume
    \/ EarningsCalendarDone
    \/ EarningsEstimatesDone
    \/ Finish

FairSpec == Spec /\ WF_vars(Handling) /\ WF_vars(UpstreamCompletes)

\* the earnings handler entered on any day: requests for /api/earnings with a
\* symbol, received by a build that reaches the calendar call
DateInit ==
    /\ file \in {"server", "part_001"}
    /\ route = "earnings"
    /\ param \in {"blank", "text"}
    /\ pc = "received"
    /\ calls = <<>>
    /\ inflight = 0
    /\ replies = <<>>
    /\ calendarData = NoPayload
    /\ responses = <<>>
    /\ today \in Dates
    /\ window = NoWindow

DateNext == EarningsStart

DateSpec == DateInit /\ [][DateNext]_vars

----------------------------------------------------------------------------
(* Vocabulary of the properties *)

Answered == pc = "done"

\* the upstream answered with a status outside 200..299
Non2xx(o) == o.net = "ok" /\ ~(o.status \in 200..299)

\* the upstream answered 2xx with a body that is a JSON text
Good(o) == o.net = "ok" /\ o.status \in 200..299 /\ o.body.kind = "json"

IsList(x) == x.t = "list"

\* a field of the value a body denotes; undefined when there is none
FieldOf(o, n) ==
    IF o.net = "ok" /\ o.body.kind = "json" /\ o.body.val.t = "obj"
    THEN o.body.val.f[n] ELSE Undef

IsErrorEnvelope(r) ==
    /\ r.status >= 400
    /\ {"error", "details", "timestamp"} \subseteq r.keys
    /\ r.body = <<>>

\* what a caller can tell failures apart by
ErrorClass(r) == <<r.status, r.error.text, r.details.text, "retryable" \in r.keys>>

CalendarPath == "/calendar/earnings"

----------------------------------------------------------------------------
(* Properties *)

\* C1: on every route with a required parameter, a request that omits the
\* parameter or leaves it empty is answered with HTTP 400, and no upstream
\* call is issued for it.
C1_MissingParamIs400 ==
    (Answered /\ route # "health" /\ Falsy(param)) =>
        /\ Len(responses) = 1
        /\ responses[1].status = 400
        /\ calls = <<>>

\* C2: on /api/search, an attempt the upstream answers with a non-2xx status
\* is followed by another attempt while fewer than 3 were made; with attempts
\* 1 and 2 non-2xx and attempt 3 a success, the third payload is returned
\* after exactly 3 upstream calls.
C2_RetryUntilThirdAttempt ==
    (route = "search" /\ responses # <<>> /\ replies # <<>> /\ Non2xx(replies[1])) =>
        /\ Len(calls) >= 2
        /\ Len(replies) >= 2
        /\ Non2xx(replies[2]) =>
              /\ Len(calls) = 3
              /\ Len(replies) = 3
              /\ (Good(replies[3]) /\ IsList(FieldOf(replies[3], "results"))) =>
                    /\ responses[1].status = 200
                    /\ responses[1].body = <<replies[3].body.val>>

\* C3: on /api/search, when the upstream answers every attempt with a non-2xx
\* status, exactly 3 upstream calls are made and the response is HTTP 502
\* marked retryable; a failure of another cause is answered with HTTP 500 and
\* is not marked retryable.
C3_ExhaustedIs502 ==
    (route = "search" /\ Answered /\ replies # <<>>) =>
        /\ (\A i \in 1..Len(replies) : Non2xx(replies[i])) =>
              /\ Len(calls) = 3
              /\ responses[1].status = 502
              /\ "retryable" \in responses[1].keys
        /\ (~Non2xx(replies[Len(replies)]) /\ responses[1].status >= 400) =>
              /\ responses[1].status = 500
              /\ "retryable" \notin responses[1].keys

\* C4: a request to /api/earnings with a symbol issues exactly two upstream
\* calls, the calendar call and then the estimates call; the estimates call
\* is issued only once the calendar call has completed and its body is
\* decoded, and the two calls are never in flight together.
C4_EarningsTwoCallsInTurn ==
    (route = "earnings" /\ ~Falsy(param)) =>
        /\ inflight <= 1
        /\ Len(calls) = 2 =>
              /\ Len(replies) >= 1
              /\ calendarData = JSONparse(replies[1].body).val
              /\ JSONparse(replies[1].body).ok
        /\ Answered => calls = <<CalendarPath, EstimatesPath>>

\* C5: /api/earnings answers with {calendar, estimates} only if
\* calendarData.earningsCalendar and estimatesData.earningsEstimates are both
\* lists; when either list is absent or is not a list the response is an HTTP
\* 500 error envelope; no response carries only one of calendar, estimates.
C5_EarningsAllOrNothing ==
    (route = "earnings" /\ Answered) =>
        /\ Len(responses) = 1
        /\ ("calendar" \in responses[1].keys) <=> ("estimates" \in responses[1].keys)
        /\ (responses[1].status < 400) =>
              /\ Len(replies) = 2
              /\ IsList(FieldOf(replies[1], "earningsCalendar"))
              /\ IsList(FieldOf(replies[2], "earningsEstimates"))
              /\ responses[1].keys = {"calendar", "estimates"}
              /\ responses[1].body = <<replies[1].body.val, replies[2].body.val>>
        /\ (\/ (Len(replies) >= 1 /\ ~IsList(FieldOf(replies[1], "earningsCalendar")))
            \/ (Len(replies) >= 2 /\ ~IsList(FieldOf(replies[2], "earningsEstimates")))) =>
              /\ responses[1].status = 500
              /\ IsErrorEnvelope(responses[1])

\* C5 witness: both upstream calls were answered 2xx with JSON, the calendar
\* carries its list, the estimates payload carries a non-list, and the
\* request was answered 500.
C5_Witness ==
    /\ route = "earnings"
    /\ Answered
    /\ Len(replies) = 2
    /\ Good(replies[1])
    /\ Good(replies[2])
    /\ IsList(FieldOf(replies[1], "earningsCalendar"))
    /\ FieldOf(replies[2], "earningsEstimates") = JV("str", <<1>>)
    /\ responses[1].status = 500

\* C6: on /api/search with a non-empty query, when the upstream answers 2xx
\* with a JSON object whose results field is a list, the response is HTTP 200
\* and carries exactly the upstream's results: the same elements in the same
\* order.
C6_SearchResultsExact ==
    (/\ route = "search"
     /\ Answered
     /\ ~Falsy(param)
     /\ Len(replies) = 1
     /\ Good(replies[1])
     /\ IsList(FieldOf(replies[1], "results"))) =>
        /\ Len(responses) = 1
        /\ responses[1].status = 200
        /\ Len(responses[1].body) = 1
        /\ Prop(responses[1].body[1], "results") = FieldOf(replies[1], "results")

\* C6 witness: a search answered 200 with an upstream list of two different
\* results.
C6_Witness ==
    /\ route = "search"
    /\ Answered
    /\ Len(replies) = 1
    /\ Good(replies[1])
    /\ FieldOf(replies[1], "results") = JV("list", <<2, 1>>)
    /\ responses[1].status = 200

\* C7: on /api/search, when the decoded upstream payload has no results
\* field, or one that is not a list, the response is HTTP 500 and never a
\* success response.
C7_SearchBadShapeIs500 ==
    (/\ route = "search"
     /\ Answered
     /\ Len(replies) = 1
     /\ replies[1].net = "ok"
     /\ replies[1].body.kind = "json"
     /\ ~IsList(FieldOf(replies[1], "results"))) =>
        /\ Len(responses) = 1
        /\ responses[1].status = 500
        /\ responses[1].body = <<>>

\* C7 witness: the upstream answered 200 with an object whose results field
\* is a non-empty string, and the search was answered 500.
C7_Witness ==
    /\ route = "search"
    /\ Answered
    /\ Len(replies) = 1
    /\ replies[1].status = 200
    /\ FieldOf(replies[1], "results") = JV("str", <<1>>)
    /\ responses[1].status = 500

\* C8: an upstream body that is an HTML document produces a failure that is
\* classified differently from the failure of a body that is not HTML and
\* does not parse as JSON.
C8_HtmlDistinctFromParseError ==
    (/\ route = "search"
     /\ Answered
     /\ Len(replies) = 1
     /\ replies[1].net = "ok"
     /\ replies[1].body.kind = "html") =>
        ErrorClass(responses[1]) #
            ErrorClass(SearchReplyOf(file, [replies[1] EXCEPT !.body.kind = "garbage"]))

\* C9: every response a handler sends carries a timestamp field, and every
\* error response, the HTTP 400 ones included, carries details and timestamp.
C9_EnvelopeFields ==
    \A i \in 1..Len(responses) :
        responses[i].by = "handler" =>
            /\ "timestamp" \in responses[i].keys
            /\ responses[i].status >= 400 => "details" \in responses[i].keys

\* C10: the HTTP status of an error response a handler sends is 400, 500 or
\* 502; the upstream's own status is never the status of the response.
C10_ErrorStatuses ==
    \A i \in 1..Len(responses) :
        (responses[i].by = "handler" /\ responses[i].status >= 400) =>
            responses[i].status \in {400, 500, 502}

\* C11: on every route that calls an upstream, a non-2xx upstream reply never
\* leads to a success response: the request is answered with an error, also
\* when the non-2xx body is JSON carrying the fields the route expects.
C11_Non2xxNeverSuccess ==
    (Answered /\ \E i \in 1..Len(replies) : Non2xx(replies[i])) =>
        \A j \in 1..Len(responses) : responses[j].status >= 400

\* the failure a response reports names the status code c
CarriesStatus(r, c) ==
    \/ r.status = c
    \/ r.error.status = c
    \/ r.details.status = c

\* C12: whenever the upstream status is non-2xx, the failure the caller gets
\* carries the upstream status code, for a body that decodes as JSON and for
\* one that does not: the JSON decoding does not come before the status test.
C12_Non2xxCarriesStatus ==
    Answered =>
        \A i \in 1..Len(replies) :
            Non2xx(replies[i]) =>
                /\ Len(responses) = 1
                /\ CarriesStatus(responses[1], replies[i].status)

\* the calendar call failed: the fetch was rejected, or the body is not JSON
CalendarCallFailed == replies[1].net = "fail" \/ replies[1].body.kind # "json"

\* the calendar body decoded, and earningsCalendar is not a list in it
CalendarShapeFails ==
    /\ replies[1].net = "ok"
    /\ replies[1].body.kind = "json"
    /\ ~IsList(FieldOf(replies[1], "earningsCalendar"))

\* C13 (as stated): on /api/earnings an error of the calendar call (a
\* rejected fetch, a body that does not decode) ends the request with HTTP
\* 500 and the estimates call is never issued; likewise a calendar payload
\* that fails the shape test ends the request before any further upstream
\* call.
C13_ShapeFailureStopsCalls ==
    (route = "earnings" /\ ~Falsy(param) /\ Len(replies) >= 1) =>
        /\ CalendarCallFailed =>
              /\ Len(calls) = 1
              /\ Answered => (Len(responses) = 1 /\ responses[1].status = 500)
        /\ CalendarShapeFails =>
              /\ Len(calls) = 1
              /\ Answered => (Len(responses) = 1 /\ responses[1].status = 500)

\* C13 (amended): on /api/earnings an error of the calendar call (a rejected
\* fetch, a body that does not decode) ends the request with an HTTP 500
\* error envelope and the estimates call is never issued; a calendar payload
\* that fails the shape test is also answered with an HTTP 500 error envelope,
\* but the shape test runs only after the estimates call was issued and has
\* completed.
C13_CalendarErrorStopsCalls ==
    (route = "earnings" /\ ~Falsy(param) /\ Len(replies) >= 1) =>
        /\ CalendarCallFailed =>
              /\ Len(calls) = 1
              /\ pc \in {"resume", "done"}
              /\ Answered =>
                    /\ Len(responses) = 1
                    /\ responses[1].status = 500
                    /\ IsErrorEnvelope(responses[1])
        /\ CalendarShapeFails =>
              /\ responses # <<>> =>
                    /\ calls = <<CalendarPath, EstimatesPath>>
                    /\ Len(replies) = 2
                    /\ Len(responses) = 1
                    /\ responses[1].status = 500
                    /\ IsErrorEnvelope(responses[1])

\* C13 witness: the calendar body was HTML, the request was answered 500 and
\* only the calendar call was made.
C13_Witness ==
    /\ route = "earnings"
    /\ Answered
    /\ Len(replies) = 1
    /\ replies[1].net = "ok"
    /\ replies[1].body.kind = "html"
    /\ calls = <<CalendarPath>>
    /\ responses[1].status = 500

\* C14: on every day, the window /api/earnings sends to the calendar path
\* has from = the day of the request and to = the day 3 calendar months
\* later: to lies in the third month after the month of from (the year
\* rolling over), also when the month of to has no day of that number.
C14_WindowIsThreeMonths ==
    window # NoWindow =>
        /\ window.from = <<today.y, today.m, today.d>>
        /\ window.to[2] = ((today.m + 2) % 12) + 1
        /\ window.to[1] = today.y + ((today.m + 2) \div 12)

\* C15: on every route and every path of its handler, when each upstream
\* call issued ends in a response or a failure, a request that was received
\* is eventually answered, and no request is ever answered more than once.
C15_AnsweredExactlyOnce ==
    /\ [](Len(responses) <= 1)
    /\ [](Answered => Len(responses) = 1)
    /\ (pc = "received") ~> (Answered /\ Len(responses) = 1)

\* C15 witness: an income-statement request whose upstream body did not
\* parse was answered, once, by the handler's inner 500.
C15_Witness ==
    /\ route = "income"
    /\ Answered
    /\ Len(replies) = 1
    /\ replies[1].net = "ok"
    /\ replies[1].body.kind = "garbage"
    /\ Len(responses) = 1
    /\ "rawResponsePreview" \in responses[1].keys

====
